---- MODULE Spec2Model ----
(***************************************************************************)
(* Shopping cart with remote synchronisation (redux-adv-shoppingCart).     *)
(*                                                                         *)
(* The cart slice (store/cart-slice.js), the sendCartData thunk and the    *)
(* isInitial-guarded effect (notes kept in store/cart-slice.js) and the    *)
(* fetchCartData thunk (notes/02_thunk_example2.md) and the ui slice        *)
(* (store/ui-slice.js) as one state machine.                               *)
(* Dispatching a cart action and the effect run that React performs for    *)
(* the resulting render are one step; network requests are answered by the *)
(* gateway and resumed by the client in separate steps, in any order.      *)
(***************************************************************************)
EXTENDS Integers, Sequences, FiniteSets, TLC

\* ---------------------------------------------------------------- bounds
MaxAdds == 2

\* ------------------------------------------------------------ JS values
\* components/Shop/Products.js: DUMMY_PROUCTS
Products ==
  { [id |-> "p1", price |-> 6, title |-> "buggati"],
    [id |-> "p2", price |-> 60, title |-> "ferrari"] }

ProductIds == { p.id : p \in Products }

\* the value of a property an object does not have
Undefined == "undefined"

HasField(obj, f) == f \in DOMAIN obj

\* obj.f for a string-valued property: undefined when the object lacks it
Field(obj, f) == IF HasField(obj, f) THEN obj[f] ELSE Undefined

\* store/cart-slice.js: initialCartState
initialCartState == [items |-> <<>>, totalQuantity |-> 0, totalAmount |-> 0]

\* ------------------------------------------------------------ cart slice
\* index of the first element the callback (item) => item.id === id accepts,
\* 0 when Array.prototype.find returns undefined
FindById(items, id) ==
  LET hits == { i \in 1..Len(items) : Field(items[i], "id") = id }
  IN IF hits = {} THEN 0 ELSE CHOOSE i \in hits : \A j \in hits : i <= j

\* items.filter((item) => item.id !== id)
RECURSIVE FilterNotId(_, _)
FilterNotId(items, id) ==
  IF items = <<>> THEN <<>>
  ELSE LET rest == FilterNotId(Tail(items), id)
       IN IF Field(Head(items), "id") # id THEN <<Head(items)>> \o rest ELSE rest

\* addItemToCart that starts a new line with totalPrice 0
addItemToCart_noTotalPrice(state, newItem) ==
  LET existingItem == FindById(state.items, newItem.id)
  IN IF existingItem = 0
     THEN [state |-> [state EXCEPT !.items =
                        Append(@, [itemId |-> newItem.id,
                                   price |-> newItem.price,
                                   quantity |-> 1,
                                   totalPrice |-> 0,
                                   name |-> newItem.title])],
           error |-> "none"]
     ELSE [state |-> [state EXCEPT
                        !.items[existingItem].quantity = @ + 1,
                        !.items[existingItem].totalPrice = @ + newItem.price],
           error |-> "none"]

\* reducer addItemToCart(state, action), action.payload = newItem
addItemToCart(state, newItem) ==
  LET existingItem == FindById(state.items, newItem.id)
  IN IF existingItem = 0
     THEN [state |-> [state EXCEPT !.items =
                        Append(@, [itemId |-> newItem.id,
                                   price |-> newItem.price,
                                   quantity |-> 1,
                                   totalPrice |-> newItem.price,
                                   name |-> newItem.title])],
           error |-> "none"]
     ELSE [state |-> [state EXCEPT
                        !.items[existingItem].quantity = @ + 1,
                        !.items[existingItem].totalPrice = @ + newItem.price],
           error |-> "none"]

\* reducer removeItemFromCart(state, action), action.payload = id.
\* state.item is read (the state has no such property), so .find is called
\* on undefined and the reducer throws; a throwing reducer leaves the store
\* state as it was.
removeItemFromCart(state, id) ==
  IF ~HasField(state, "item")
  THEN [state |-> state, error |-> "TypeError"]
  ELSE LET existingItem == FindById(state.item, id)
       IN IF existingItem = 0
          THEN [state |-> state, error |-> "TypeError"]
          ELSE IF state.item[existingItem].quantity = 1
               THEN [state |-> [state EXCEPT !.items = FilterNotId(@, id)],
                     error |-> "none"]
               ELSE [state |-> [state EXCEPT
                                  !.item[existingItem].quantity = @ - 1],
                     error |-> "none"]

\* reducer replaceCart(state, action): wholesale substitution
replaceCart(state, newCartState) == newCartState

\* -------------------------------------------------------------- ui slice
\* store/ui-slice.js: initialUIstate
initialUIstate == [cartIsVisible |-> FALSE]

\* the slice state when createSlice was given no initialState: undefined
UndefinedState == [undefined |-> TRUE]

\* the options objects the repository passes to createSlice for the ui
\* slice: store/ui-slice.js spells the key initialState, the second copy of
\* the slice (unnamed/part_000) spells it intialState
uiSlice == [name |-> "ui", initialState |-> initialUIstate]

uiSliceCopy == [name |-> "ui", intialState |-> initialUIstate]

uiSliceOptions == {uiSlice, uiSliceCopy}

\* createSlice: the slice starts from options.initialState
getInitialState(options) ==
  IF HasField(options, "initialState") THEN options.initialState
  ELSE UndefinedState

\* reducer toggle(state): state.cartIsVisible = !state.cartIsVisible;
\* reading a property of an undefined state throws
toggle(state) ==
  IF state = UndefinedState
  THEN [state |-> state, error |-> "TypeError"]
  ELSE [state |-> [state EXCEPT !.cartIsVisible = ~@], error |-> "none"]

\* --------------------------------------------------------- notifications
\* the notification slot before any showNotification
NoNotification == [status |-> "none"]

\* sendCartData: first dispatch
PendingNotification ==
  [status |-> "pending", title |-> "Sending...",
   message |-> "Sending cart data..."]

\* sendCartData: dispatch in the try block
SentNotification ==
  [status |-> "success!", title |-> "success",
   message |-> "Sent Cart Data Successfully"]

\* sendCartData: dispatch in the catch block
SendFailedNotification == [status |-> "error", title |-> "Error!"]

\* fetchCartData: dispatch in the catch block
FetchFailedNotification ==
  [status |-> "error", title |-> "Error!",
   message |-> "Fetching cart data failed!"]

\* reducer showNotification: the slot is overwritten by the payload
showNotification(state, payload) == payload

\* ------------------------------------------------------------- gateway
\* body: JSON.stringify(cart) of numbers, strings, arrays and plain objects
\* with no undefined property; parsing it back gives the same value
JSONStringify(c) == c

\* carts a previous session of this program can have left in the gateway
RemoteCarts ==
  { initialCartState,
    addItemToCart(initialCartState,
                  [id |-> "p1", price |-> 6, title |-> "buggati"]).state }

\* what the transport can give back for a request
PutOutcomes == {"ok", "notOk", "netFail"}
GetOutcomes == {"ok", "notOk", "netFail", "badBody"}

\* the Response of a request: rejected = fetch() rejected (no response at
\* all), ok = response.ok, decodable = response.json() resolves
Response(outcome, data) ==
  [rejected |-> outcome = "netFail",
   ok |-> outcome \in {"ok", "badBody"},
   decodable |-> outcome # "badBody",
   data |-> data]

NoResponse == Response("netFail", initialCartState)

\* a Response object is truthy whatever its status
IsTruthy(response) == TRUE

\* sendRequest in sendCartData: TRUE when it throws
sendRequestThrows(response) ==
  IF response.rejected THEN TRUE
  ELSE ~IsTruthy(response)

\* fetchData without the response.ok test
fetchData_noStatusCheck(response) ==
  IF response.rejected THEN [threw |-> TRUE, data |-> initialCartState]
  ELSE IF ~response.decodable THEN [threw |-> TRUE, data |-> initialCartState]
  ELSE [threw |-> FALSE, data |-> response.data]

\* fetchData in fetchCartData
fetchData(response) ==
  IF response.rejected THEN [threw |-> TRUE, data |-> initialCartState]
  ELSE IF ~response.ok THEN [threw |-> TRUE, data |-> initialCartState]
  ELSE IF ~response.decodable THEN [threw |-> TRUE, data |-> initialCartState]
  ELSE [threw |-> FALSE, data |-> response.data]

\* ---------------------------------------------------------------- state
VARIABLES
  mounted,       \* App has rendered once and run its effects
  cart,          \* store state of the cart slice
  notification,  \* store state: the notification slot
  isInitial,     \* module-level flag read by the cart effect
  pull,          \* the fetchCartData thunk: stage, response
  pushes,        \* the sendCartData thunks started so far, in start order,
                 \* each with the events it has performed (log)
  remote,        \* the cart document held by the gateway
  lastApplied,   \* the push whose write the gateway applied last (0: none)
  lastError,     \* exception thrown by the last dispatched action
  ui,            \* store state of the ui slice (cart visibility)
  adds,          \* number of addItemToCart dispatches
  addedAmount    \* sum of the unit prices of the dispatched candidates

vars == <<mounted, cart, notification, isInitial, pull, pushes, remote,
          lastApplied, lastError, ui, adds, addedAmount>>

Init ==
  /\ mounted = FALSE
  /\ cart = initialCartState
  /\ notification = NoNotification
  /\ isInitial = TRUE
  /\ pull = [stage |-> "idle", response |-> NoResponse]
  /\ pushes = <<>>
  /\ remote \in RemoteCarts
  /\ lastApplied = 0
  /\ lastError = "none"
  /\ ui = getInitialState(uiSlice)
  /\ adds = 0
  /\ addedAmount = 0

\* -------------------------------------------------------------- thunks
\* sendCartData(cart) up to its await: pending notification, PUT issued
\* sendCartData that sends the cart of the store as it was before the change
sendCartDataFrom_staleBody(n, ps, c, cause) ==
  /\ notification' = showNotification(n, PendingNotification)
  /\ pushes' = Append(ps, [cause |-> cause,
                           body |-> JSONStringify(cart),
                           stage |-> "sent",
                           response |-> NoResponse,
                           log |-> <<"pending", "PUT">>])

\* sendCartData without its first dispatch
sendCartDataFrom_noPending(n, ps, c, cause) ==
  /\ notification' = n
  /\ pushes' = Append(ps, [cause |-> cause,
                           body |-> JSONStringify(c),
                           stage |-> "sent",
                           response |-> NoResponse,
                           log |-> <<"pending", "PUT">>])

\* run from a store whose notification slot is n and with the thunks ps
sendCartDataFrom(n, ps, c, cause) ==
  /\ notification' = showNotification(n, PendingNotification)
  /\ pushes' = Append(ps, [cause |-> cause,
                           body |-> JSONStringify(c),
                           stage |-> "sent",
                           response |-> NoResponse,
                           log |-> <<"pending", "PUT">>])

sendCartData(c, cause) == sendCartDataFrom(notification, pushes, c, cause)

\* useEffect(() => { if (isInitial) { isInitial = false; return; }
\*                   dispatch(sendCartData(cart)); }, [cart, dispatch])
\* run for a render in which the cart is c
\* the effect without the assignment isInitial = false
CartEffectFrom_keepsFlag(n, ps, c, cause) ==
  IF isInitial
  THEN /\ UNCHANGED isInitial
       /\ notification' = n
       /\ pushes' = ps
  ELSE /\ UNCHANGED isInitial
       /\ sendCartDataFrom(n, ps, c, cause)

CartEffectFrom(n, ps, c, cause) ==
  IF isInitial
  THEN /\ isInitial' = FALSE
       /\ notification' = n
       /\ pushes' = ps
  ELSE /\ UNCHANGED isInitial
       /\ sendCartDataFrom(n, ps, c, cause)

CartEffect(c, cause) == CartEffectFrom(notification, pushes, c, cause)

\* the store state the components select from
Store(c, u, n) == [cart |-> c, ui |-> u, notification |-> n]

\* an effect that depends on the whole store state
DepsChanged_anyState(before, after) == before # after

\* the dependency array [cart, dispatch] of the cart effect, with cart the
\* cart slice of the store: the effect runs again when the cart changed
DepsChanged(before, after) == before.cart # after.cart

\* dispatch of a ui action (toggle, showNotification) that leaves the ui
\* slice at u and the notification slot at n, by a thunk whose records are
\* ps; the cart effect runs when its dependencies changed
DispatchUI(u, n, ps) ==
  /\ ui' = u
  /\ IF DepsChanged(Store(cart, ui, notification), Store(cart, u, n))
     THEN CartEffectFrom(n, ps, cart, "ui")
     ELSE /\ notification' = n
          /\ pushes' = ps
          /\ UNCHANGED isInitial

\* first render: the cart effect runs for the initial cart, and
\* useEffect(() => { dispatch(fetchCartData()); }, [dispatch]) issues the GET
Mount ==
  /\ ~mounted
  /\ mounted' = TRUE
  /\ CartEffect(cart, "mount")
  /\ pull' = [stage |-> "sent", response |-> NoResponse]
  /\ UNCHANGED <<cart, remote, lastApplied, lastError, ui, adds, addedAmount>>

\* dispatch of a cart action whose reducer gave result; the effect runs when
\* the cart state changed
DispatchCart(result, cause) ==
  /\ lastError' = result.error
  /\ IF result.error # "none"
     THEN UNCHANGED <<cart, notification, isInitial, pushes>>
     ELSE /\ cart' = result.state
          /\ IF result.state # cart
             THEN CartEffect(result.state, cause)
             ELSE UNCHANGED <<notification, isInitial, pushes>>

\* the user adds a product: dispatch(cartActions.addItemToCart({id,title,price}))
AddItem(p) ==
  /\ mounted
  /\ adds < MaxAdds
  /\ adds' = adds + 1
  /\ addedAmount' = addedAmount + p.price
  /\ DispatchCart(addItemToCart(cart, p), "addItemToCart")
  /\ UNCHANGED <<mounted, pull, remote, lastApplied, ui>>

\* the user removes one unit: dispatch(cartActions.removeItemFromCart(id))
RemoveItem(id) ==
  /\ mounted
  /\ DispatchCart(removeItemFromCart(cart, id), "removeItemFromCart")
  /\ UNCHANGED <<mounted, pull, remote, lastApplied, ui, adds, addedAmount>>

\* the gateway answers the GET
GatewayRead(outcome) ==
  /\ pull.stage = "sent"
  /\ pull' = [stage |-> "answered", response |-> Response(outcome, remote)]
  /\ UNCHANGED <<mounted, cart, notification, isInitial, pushes, remote, lastApplied,
                 lastError, ui, adds, addedAmount>>

\* fetchCartData resumes: try { replaceCart(await fetchData()) } catch {...}
\* The replaced cart is a freshly parsed object, so the store state changes
\* identity even when it has the same content, and the cart effect runs.
FetchComplete ==
  /\ pull.stage = "answered"
  /\ pull' = [pull EXCEPT !.stage = "done"]
  /\ LET r == fetchData(pull.response)
     IN IF r.threw
        THEN /\ DispatchUI(ui, showNotification(notification,
                                                 FetchFailedNotification),
                           pushes)
             /\ UNCHANGED cart
        ELSE /\ cart' = replaceCart(cart, r.data)
             /\ CartEffect(replaceCart(cart, r.data), "replaceCart")
             /\ UNCHANGED ui
  /\ UNCHANGED <<mounted, remote, lastApplied, lastError, adds, addedAmount>>

\* the gateway answers the PUT of push i
GatewayWrite(i, outcome) ==
  /\ i \in 1..Len(pushes)
  /\ pushes[i].stage = "sent"
  /\ pushes' = [pushes EXCEPT ![i].stage = "answered",
                              ![i].response = Response(outcome, pushes[i].body)]
  /\ remote' = IF outcome = "ok" THEN pushes[i].body ELSE remote
  /\ lastApplied' = IF outcome = "ok" THEN i ELSE lastApplied
  /\ UNCHANGED <<mounted, cart, notification, isInitial, pull, lastError, ui,
                 adds, addedAmount>>

\* sendCartData resumes after await sendRequest()
SendComplete(i) ==
  /\ i \in 1..Len(pushes)
  /\ pushes[i].stage = "answered"
  /\ LET n == IF sendRequestThrows(pushes[i].response)
              THEN SendFailedNotification ELSE SentNotification
     IN DispatchUI(ui, showNotification(notification, n),
                   [pushes EXCEPT ![i].stage = "done",
                                  ![i].log = Append(@, "terminal")])
  /\ UNCHANGED <<mounted, cart, pull, remote, lastApplied, lastError, adds, addedAmount>>

\* the user shows or hides the cart panel: dispatch(uiActions.toggle())
Toggle ==
  /\ mounted
  /\ LET r == toggle(ui)
     IN /\ lastError' = r.error
        /\ IF r.error # "none"
           THEN UNCHANGED <<ui, notification, isInitial, pushes>>
           ELSE DispatchUI(r.state, notification, pushes)
  /\ UNCHANGED <<mounted, cart, pull, remote, lastApplied, adds, addedAmount>>

Next ==
  \/ Mount
  \/ \E p \in Products : AddItem(p)
  \/ \E id \in ProductIds : RemoveItem(id)
  \/ \E o \in GetOutcomes : GatewayRead(o)
  \/ FetchComplete
  \/ \E i \in 1..(MaxAdds + 1), o \in PutOutcomes : GatewayWrite(i, o)
  \/ \E i \in 1..(MaxAdds + 1) : SendComplete(i)

Spec == Init /\ [][Next]_vars

\* a session on a fresh gateway in which the user adds products and shows or
\* hides the cart panel, with the ui slice built from either of the
\* repository's two createSlice calls; the GET is answered with its cart or
\* with an error status, a PUT is answered ok or fails in transport
InitUI ==
  /\ mounted = FALSE
  /\ cart = initialCartState
  /\ notification = NoNotification
  /\ isInitial = TRUE
  /\ pull = [stage |-> "idle", response |-> NoResponse]
  /\ pushes = <<>>
  /\ remote = initialCartState
  /\ lastApplied = 0
  /\ lastError = "none"
  /\ ui \in { getInitialState(o) : o \in uiSliceOptions }
  /\ adds = 0
  /\ addedAmount = 0

NextUI ==
  \/ Mount
  \/ Toggle
  \/ \E p \in Products : AddItem(p)
  \/ \E o \in {"ok", "notOk"} : GatewayRead(o)
  \/ FetchComplete
  \/ \E i \in 1..(MaxAdds + 1), o \in {"ok", "netFail"} : GatewayWrite(i, o)
  \/ \E i \in 1..(MaxAdds + 1) : SendComplete(i)

SpecUI == InitUI /\ [][NextUI]_vars

\* ------------------------------------------------------------ properties
\* index of the line item of product id (its itemId), 0 when there is none
LineOf(items, id) ==
  LET hits == { i \in 1..Len(items) : items[i].itemId = id }
  IN IF hits = {} THEN 0 ELSE CHOOSE i \in hits : \A j \in hits : i <= j

RECURSIVE SumOf(_, _)
SumOf(items, f) ==
  IF items = <<>> THEN 0 ELSE Head(items)[f] + SumOf(Tail(items), f)

\* items without its k-th element
WithoutLine(items, k) ==
  [i \in 1..(Len(items) - 1) |-> IF i < k THEN items[i] ELSE items[i + 1]]

\* the startup pull has succeeded and replaceCart has been applied
Hydrated == pull.stage = "done" /\ ~fetchData(pull.response).threw

\* the transport's view of a request that did not succeed
RequestFailed(response) == response.rejected \/ ~response.ok

\* C1: in every cart reached from the empty cart by addItem and removeItem,
\* totalQuantity is the sum of the line quantities and totalAmount the sum
\* of the line totalPrices.
C1_TotalsMatchItems ==
  ~Hydrated =>
    /\ cart.totalQuantity = SumOf(cart.items, "quantity")
    /\ cart.totalAmount = SumOf(cart.items, "totalPrice")

\* C2: addItem(candidate) appends one line (quantity 1, totalPrice = price)
\* when the cart has no line of the candidate's id, and otherwise appends
\* nothing and raises that line's quantity by 1 and its totalPrice by price.
C2_AddAppendsOrIncrements ==
  [][\A p \in Products : AddItem(p) =>
       LET k == LineOf(cart.items, p.id)
       IN IF k = 0
          THEN /\ Len(cart'.items) = Len(cart.items) + 1
               /\ SubSeq(cart'.items, 1, Len(cart.items)) = cart.items
               /\ cart'.items[Len(cart'.items)].itemId = p.id
               /\ cart'.items[Len(cart'.items)].quantity = 1
               /\ cart'.items[Len(cart'.items)].totalPrice = p.price
          ELSE /\ Len(cart'.items) = Len(cart.items)
               /\ cart'.items[k].quantity = cart.items[k].quantity + 1
               /\ cart'.items[k].totalPrice = cart.items[k].totalPrice + p.price
    ]_vars

\* C3: removeItem(itemId) on a cart that has a line of that id removes the
\* line when its quantity is 1 and otherwise lowers its quantity by 1 and its
\* totalPrice by the unit price; the other lines are unchanged.
C3_RemoveDecrementsOrDeletes ==
  [][\A id \in ProductIds :
       (RemoveItem(id) /\ LineOf(cart.items, id) # 0) =>
         LET k == LineOf(cart.items, id)
         IN IF cart.items[k].quantity = 1
            THEN cart'.items = WithoutLine(cart.items, k)
            ELSE cart'.items =
                   [cart.items EXCEPT
                      ![k].quantity = @ - 1,
                      ![k].totalPrice = @ - cart.items[k].price]
    ]_vars

\* C4: removeItem(itemId) of an id that is not in the cart does not crash
\* and leaves the cart state unchanged.
C4_RemoveAbsentIsHandled ==
  [][\A id \in ProductIds :
       (RemoveItem(id) /\ LineOf(cart.items, id) = 0) =>
         (lastError' = "none" /\ cart' = cart)
    ]_vars

\* C5: the replaceAll of a successful startup pull issues no write request.
C5_HydrationNeverPushes ==
  [][(FetchComplete /\ ~fetchData(pull.response).threw) =>
       Len(pushes') = Len(pushes)]_vars

\* a push that was just started: pending emitted, then one write request
IsNewPush(ps, before) ==
  /\ Len(ps) = Len(before) + 1
  /\ SubSeq(ps, 1, Len(before)) = before
  /\ ps[Len(ps)].log = <<"pending", "PUT">>

\* C6: every cart mutation (addItem, or removeItem of a line in the cart)
\* made after hydration starts exactly one push, and every push emits one
\* pending notification, then issues one write request, then emits one
\* terminal notification, in that order.
C6_OnePushPerMutation ==
  [][/\ \A p \in Products :
          (Hydrated /\ AddItem(p)) =>
            (IsNewPush(pushes', pushes) /\ notification' = PendingNotification)
     /\ \A id \in ProductIds :
          (Hydrated /\ RemoveItem(id) /\ LineOf(cart.items, id) # 0) =>
            (IsNewPush(pushes', pushes) /\ notification' = PendingNotification)
     /\ \A i \in 1..Len(pushes') :
          \/ pushes'[i].stage # "done" /\ pushes'[i].log = <<"pending", "PUT">>
          \/ pushes'[i].stage = "done"
               /\ pushes'[i].log = <<"pending", "PUT", "terminal">>
    ]_vars

\* C7: a push whose write request fails to complete or is answered with an
\* error status ends with an error notification.
C7_FailedWriteEndsInError ==
  [][\A i \in 1..Len(pushes) :
       (SendComplete(i) /\ RequestFailed(pushes[i].response)) =>
         notification'.status = "error"
    ]_vars

\* C8: the terminal notification of a push is exactly the success record
\* when the write succeeds and exactly the error record when it fails, and
\* the notification status is always one of pending, success, error.
C8_TerminalNotificationRecords ==
  [][/\ \A i \in 1..Len(pushes) :
          SendComplete(i) =>
            notification' =
              IF RequestFailed(pushes[i].response)
              THEN [status |-> "error", title |-> "Error!",
                    message |-> "Sending cart data failed"]
              ELSE [status |-> "success", title |-> "Success",
                    message |-> "Sent cart data successfully"]
     /\ notification' # NoNotification =>
          notification'.status \in {"pending", "success", "error"}
    ]_vars

\* the startup pull failed: no response, a non-ok status, or a body that
\* cannot be decoded
PullFailed(response) ==
  response.rejected \/ ~response.ok \/ ~response.decodable

\* C9: when the startup pull fails, the cart is left as it was and the
\* notification becomes {error, "Error!", "Fetching cart data failed!"}.
C9_PullFailureKeepsCart ==
  [][(FetchComplete /\ PullFailed(pull.response)) =>
       /\ cart' = cart
       /\ notification' = [status |-> "error", title |-> "Error!",
                           message |-> "Fetching cart data failed!"]
    ]_vars

\* C9 witness: a failed pull has completed on a cart the user had already
\* filled, and its error notification is the current one
C9_Witness ==
  /\ pull.stage = "done"
  /\ PullFailed(pull.response)
  /\ cart.items # <<>>
  /\ notification.status = "error"
  /\ HasField(notification, "message")
  /\ notification.message = "Fetching cart data failed!"

\* C10: in a run where the pull succeeds and the user makes no cart
\* mutation, the notification is never set to pending or success.
C10_SilentPull ==
  (Hydrated /\ adds = 0) => notification.status \notin {"pending", "success"}

\* C11: for every sequence of addItem calls from the empty cart,
\* totalQuantity is the number of calls and totalAmount the sum of the unit
\* prices of the added candidates.
C11_TotalsCountAdds ==
  ~Hydrated =>
    /\ cart.totalQuantity = adds
    /\ cart.totalAmount = addedAmount

\* C12: no two line items of the cart have the same itemId.
C12_UniqueItemIds ==
  \A i, j \in 1..Len(cart.items) :
    cart.items[i].itemId = cart.items[j].itemId => i = j

\* C13: every line item has a quantity of at least 1 and a totalPrice equal
\* to price x quantity.
C13_LineItemsWellFormed ==
  \A i \in 1..Len(cart.items) :
    /\ cart.items[i].quantity \in Nat
    /\ cart.items[i].quantity >= 1
    /\ cart.items[i].totalPrice = cart.items[i].price * cart.items[i].quantity

\* C13 witness: a cart of two lines built by addItem, on which a removeItem
\* has been dispatched
C13_Witness ==
  /\ ~Hydrated
  /\ Len(cart.items) = 2
  /\ adds = 2
  /\ lastError = "TypeError"

\* C14: the cart-visibility flag starts false, every toggle flips it, and
\* the toggle does not fail.
C14_ToggleFlips ==
  [][/\ ~mounted => ui = initialUIstate
     /\ Toggle =>
          /\ lastError' = "none"
          /\ HasField(ui, "cartIsVisible")
          /\ ui' = [cartIsVisible |-> ~ui.cartIsVisible]
    ]_vars

\* no push is waiting for its answer or for its completion
NoPushInFlight == \A i \in 1..Len(pushes) : pushes[i].stage = "done"

\* a step that starts a push with the cart as the step leaves it
StartsPushOfNewCart ==
  Len(pushes') > Len(pushes) =>
    /\ Len(pushes') = Len(pushes) + 1
    /\ pushes'[Len(pushes')].body = cart'

\* C15 as stated: every push writes the cart as it was at the mutation that
\* triggered it, and whenever no push is in flight and the most recent push
\* succeeded, the remote cart equals the local cart.
C15_RemoteConsistentAtQuiescence ==
  [][/\ StartsPushOfNewCart
     /\ (/\ pushes' # <<>>
         /\ NoPushInFlight'
         /\ ~RequestFailed(pushes'[Len(pushes')].response)) =>
          remote' = cart'
    ]_vars

\* C15 amended: every push writes the cart as it was at the mutation that
\* triggered it, and whenever no push is in flight, the most recent push
\* succeeded and the gateway applied its write after those of all earlier
\* pushes, the remote cart equals the local cart.
C15_RemoteConsistentWhenAppliedLast ==
  [][/\ StartsPushOfNewCart
     /\ (/\ pushes' # <<>>
         /\ NoPushInFlight'
         /\ ~RequestFailed(pushes'[Len(pushes')].response)
         /\ lastApplied' = Len(pushes')) =>
          remote' = cart'
    ]_vars

\* C15 witness: two pushes overlapped, the gateway applied the second one
\* last, and both have completed
C15_Witness ==
  /\ Len(pushes) >= 2
  /\ NoPushInFlight
  /\ ~RequestFailed(pushes[1].response)
  /\ ~RequestFailed(pushes[Len(pushes)].response)
  /\ lastApplied = Len(pushes)
  /\ pushes[1].body # pushes[Len(pushes)].body
  /\ remote = cart

\* a push whose write request is issued and not yet answered
RequestInFlight == \E i \in 1..Len(pushes) : pushes[i].stage = "sent"

CompletionStep ==
  \/ \E i \in 1..Len(pushes) :
       pushes[i].stage = "answered" /\ pushes'[i].stage = "done"
  \/ pull.stage = "answered" /\ pull'.stage = "done"

C17_SyncMarkerFlipsOnce ==
  /\ isInitial = TRUE
  /\ [][/\ isInitial' => isInitial
        /\ Mount => (isInitial /\ ~isInitial' /\ pushes' = pushes)
        /\ (mounted /\ (cart' # cart \/
                        (FetchComplete /\ ~PullFailed(pull.response)))) =>
             (~isInitial /\ Len(pushes') = Len(pushes) + 1)
       ]_vars

\* C17 witness: the marker is down and two later observations were pushed
C17_Witness ==
  /\ ~isInitial
  /\ adds >= 1
  /\ Len(pushes) >= 2

\* C18: a cart-visibility toggle and a notification emission leave the cart
\* unchanged and issue no write request.
C18_UiActionsLeaveCartAlone ==
  [][/\ Toggle => (cart' = cart /\ pushes' = pushes /\ remote' = remote)
     /\ \A i \in 1..Len(pushes) :
          SendComplete(i) => (cart' = cart /\ Len(pushes') = Len(pushes))
     /\ (FetchComplete /\ PullFailed(pull.response)) =>
          (cart' = cart /\ pushes' = pushes)
     /\ (notification' # notification /\ Len(pushes') > Len(pushes)) =>
          (notification' = PendingNotification
             /\ (cart' # cart \/ FetchComplete))
    ]_vars

\* C18 witness: the panel is shown, a push has emitted both its
\* notifications, and it is still the only push
C18_Witness ==
  /\ HasField(ui, "cartIsVisible")
  /\ ui.cartIsVisible
  /\ Len(pushes) = 1
  /\ pushes[1].stage = "done"
  /\ notification \in {SentNotification, SendFailedNotification}

\* the pull and every push have run to their end
Quiescent == mounted /\ pull.stage = "done" /\ NoPushInFlight

\* C19: the quiescent state the system reaches has no push in flight and a
\* notification status that is success or error.
C19_QuiescentStatusIsTerminal ==
  Quiescent => notification.status \in {"success", "error"}

====
